---------------------------- MODULE Spec2Model ----------------------------
(***************************************************************************)
(* A model of the custom style-transfer layers of tfjs-layers:             *)
(*   ReflectionPadding2D            (layers/reflectionpadding.ts, part_000)*)
(*   InstanceNormalization          (layers/instancenormalization.ts)      *)
(*   ConditionalInstanceNormalization                                      *)
(*                          (layers/conditionalinstancenormalization.ts)   *)
(*   DeprocessStylizedImage         (layers/deprocess.ts, part_001)        *)
(* and of StyleTranfer (tfjs-react-native, webcam/style_transfer.ts).      *)
(* Tensors are nested sequences indexed from 1 (batch, height, width,      *)
(* channel); an element is a number, held as an exact fraction <<n, d>>.   *)
(* <<0, 0>> is NaN, the value a Float32Array holds after a read outside    *)
(* its buffer.                                                             *)
(***************************************************************************)
EXTENDS Integers, Sequences, FiniteSets, TLC

VARIABLES
    rpStatus,      \* ReflectionPadding2D: "none" | "ok" | "ValueError" (constructor)
    rpPadding,     \* this.padding: <<<<top, bottom>>, <<left, right>>>>
    rpDimOrdering, \* this.dim_ordering
    rpCall,        \* last call(): "none" | "ok" | "threw"
    rpX,           \* the input tensor of the last call()
    rpOut,         \* the tensor the last call() returned (<<>> if none)
    rpInShape,     \* the argument of the last computeOutputShape()
    rpShape,       \* the last result of computeOutputShape() (<<>> if none)
    norm,          \* the InstanceNormalization or ConditionalInstanceNormalization
    normOp,        \* the last operation: "none" | "new" | "build" | "train" | "call" | "fromConfig"
    normErr,       \* what that operation threw: "" | "ValueError" | "Error"
    normInShape,   \* the argument of the last build()
    normX,         \* the input tensor of the last call()
    normOut,       \* the tensor the last call() returned (<<>> if none)
    dp,            \* the DeprocessStylizedImage: its source file and activation
    dpOp,          \* the last operation on it: "none" | "new" | "call" | "fromConfig"
    dpX,           \* the input tensor of the last call()
    dpOut,         \* the tensor the last call() returned (<<>> if none)
    styleNet,      \* StyleTranfer.styleNet: 0 (undefined) or the load that set it
    transformNet,  \* StyleTranfer.transformNet: likewise
    fetches,       \* the loadGraphModel calls made so far, per model
    pending,       \* the loads in flight: [model, id]
    inits,         \* the init() calls awaiting their loads
    tested         \* the init() calls that have run testStylization()

rpVars ==
    <<rpStatus, rpPadding, rpDimOrdering, rpCall, rpX, rpOut, rpInShape, rpShape>>

normVars == <<norm, normOp, normErr, normInShape, normX, normOut>>

dpVars == <<dp, dpOp, dpX, dpOut>>

stVars == <<styleNet, transformNet, fetches, pending, inits, tested>>

vars == <<rpVars, normVars, dpVars, stVars>>

----------------------------------------------------------------------------
(* Bounds of the model.                                                    *)

\* Heights and widths of the input tensors range over 1..MaxDim.
MaxDim == 3
\* style_num ranges over 0..MaxStyle (and undefined).
MaxStyle == 2
\* The amounts of the array forms of args.padding range over 0..MaxPad; the
\* scalar form ranges over -1..MaxDim+1, past every extent.
MaxPad == 1
\* Each model of a StyleTranfer is fetched up to MaxFetch times.
MaxFetch == 2
\* init() is called up to MaxInit times on a StyleTranfer.
MaxInit == 2

----------------------------------------------------------------------------
(* Numbers.                                                                *)

NaN == <<0, 0>>
Num(n) == <<n, 1>>

----------------------------------------------------------------------------
(* Tensors.                                                                *)

\* A function on 1..n as the sequence of its values.
array(f) == f \o <<>>

\* The input tensors: every element of a tensor differs from every other.
Tensor4D(B, H, W, C) ==
    array([b \in 1..B |-> array([h \in 1..H |-> array([w \in 1..W |->
        array([c \in 1..C |-> Num(b * 1000 + h * 100 + w * 10 + c)])])])])

\* One sample of one channel, and two samples of two channels.
PadInputs ==
    { Tensor4D(bc, H, W, bc) : bc \in {1, 2}, H \in 1..MaxDim, W \in 1..MaxDim }

\* x.shape of a 4-D tensor with no empty axis.
shape(x) == <<Len(x), Len(x[1]), Len(x[1][1]), Len(x[1][1][1])>>

\* The element at the 0-based location <<b, h, w, c>> of x, of shape s, read
\* as the CPU backend reads it: through the flat row-major index, NaN outside
\* the buffer.
locToIndexRead(x, s, b, h, w, c) ==
    LET i == ((b * s[2] + h) * s[3] + w) * s[4] + c
        size == s[1] * s[2] * s[3] * s[4]
    IN  IF i < 0 \/ i >= size THEN NaN
        ELSE LET ic == i % s[4]
                 iw == (i \div s[4]) % s[3]
                 ih == (i \div (s[4] * s[3])) % s[2]
                 ib == i \div (s[4] * s[3] * s[2])
             IN  x[ib + 1][ih + 1][iw + 1][ic + 1]

\* x.gather(indices, axis) for axis 1 (height) or 2 (width); indices are
\* 0-based.
gather(x, indices, axis) ==
    LET s == shape(x) IN
    IF axis = 2
    THEN array([b \in 1..s[1] |-> array([h \in 1..s[2] |->
            array([n \in 1..Len(indices) |-> array([c \in 1..s[4] |->
                locToIndexRead(x, s, b - 1, h - 1, indices[n], c - 1)])])])])
    ELSE array([b \in 1..s[1] |-> array([n \in 1..Len(indices) |->
            array([w \in 1..s[3] |-> array([c \in 1..s[4] |->
                locToIndexRead(x, s, b - 1, indices[n], w - 1, c - 1)])])])])

\* tfc.concat([a, b], axis) for axis 1 or 2.
concat(a, b, axis) ==
    IF axis = 2
    THEN array([n \in 1..Len(a) |->
            array([h \in 1..Len(a[n]) |-> a[n][h] \o b[n][h]])])
    ELSE array([n \in 1..Len(a) |-> a[n] \o b[n]])

\* Whether every index of a gather lies on the axis it reads.
indicesInRange(indices, extent) ==
    \A n \in 1..Len(indices) : indices[n] >= 0 /\ indices[n] < extent


----------------------------------------------------------------------------
(* reflection2dPadding (layers/reflectionpadding.ts).                      *)

\* The four gathers and concats of reflection2dPadding. Only padding[0][0]
\* is read. A gather whose indices leave the axis throws on a backend that
\* validates them (strict) and reads through the flat index on one that
\* does not.
reflection2dPadding(x, padding, strict) ==
    LET paddingNum == padding[1][1]
        width == shape(x)[3]
        height == shape(x)[2]
        \* the loops run paddingNum times, and not at all when it is <= 0
        count == IF paddingNum > 0 THEN paddingNum ELSE 0
        rightIndex == [i \in 1..count |-> width - i]
        leftTopIndex == [n \in 1..count |-> paddingNum - n]
        bottomIndex == [i \in 1..count |-> height + paddingNum - i]
        right == concat(x, gather(x, rightIndex, 2), 2)
        left == concat(gather(x, leftTopIndex, 2), right, 2)
        top == concat(gather(left, leftTopIndex, 1), left, 1)
        bottom == concat(top, gather(top, bottomIndex, 1), 1)
        inRange == /\ indicesInRange(rightIndex, width)
                   /\ indicesInRange(leftTopIndex, width)
                   /\ indicesInRange(leftTopIndex, height)
                   /\ indicesInRange(bottomIndex, height + paddingNum)
    IN  IF strict /\ ~inRange
        THEN [threw |-> TRUE, value |-> <<>>]
        ELSE [threw |-> FALSE, value |-> bottom]

----------------------------------------------------------------------------
(* reflection2dPadding (part_000), on the nested array of x.arraySync().   *)

\* undefined, as an element of an array of arrays.
undefined == <<>>

\* arr[k] of JavaScript: undefined where k is no index of arr.
elementAt(arr, k) == IF k \in 0..(Len(arr) - 1) THEN arr[k + 1] ELSE undefined

\* tfc.tensor4d(values): the shape is inferred along the first elements, and
\* values that are not a full number[][][][] of that shape make it throw.
tensor4d(values) ==
    LET H == Len(values[1])
        W == IF H = 0 THEN 0 ELSE Len(values[1][1])
        C == IF W = 0 THEN 0 ELSE Len(values[1][1][1])
        full == /\ C > 0
                /\ \A b \in 1..Len(values) :
                      /\ Len(values[b]) = H
                      /\ \A h \in 1..H :
                            /\ Len(values[b][h]) = W
                            /\ \A w \in 1..W : Len(values[b][h][w]) = C
    IN  IF full THEN [threw |-> FALSE, value |-> values]
        ELSE [threw |-> TRUE, value |-> <<>>]

\* The loops with their unshift order turned round: the variant C18 rules
\* out.
reflection2dPaddingArraySyncForward(x, padding) ==
    LET num == padding[1][1]
        \* the loops run num times, and not at all when it is <= 0
        count == IF num > 0 THEN num ELSE 0
        pushUnshift(originArr) ==
            LET len == Len(originArr) IN
            array([n \in 1..count |-> elementAt(originArr, n - 1)])
            \o originArr
            \o array([j \in 1..count |-> elementAt(originArr, len - j)])
        rows == array([i \in 1..Len(x[1]) |-> pushUnshift(x[1][i])])
        xArray == <<pushUnshift(rows)>> \o Tail(x)
    IN  tensor4d(xArray)

\* The push/unshift loops over the rows of xArray[0] and then over
\* xArray[0] itself; only padding[0][0] is read and only the first sample
\* is padded.
reflection2dPaddingArraySync(x, padding) ==
    LET num == padding[1][1]
        \* the loops run num times, and not at all when it is <= 0
        count == IF num > 0 THEN num ELSE 0
        pushUnshift(originArr) ==
            LET len == Len(originArr) IN
            array([n \in 1..count |-> elementAt(originArr, count - n)])
            \o originArr
            \o array([j \in 1..count |-> elementAt(originArr, len - j)])
        rows == array([i \in 1..Len(x[1]) |-> pushUnshift(x[1][i])])
        xArray == <<pushUnshift(rows)>> \o Tail(x)
    IN  tensor4d(xArray)

----------------------------------------------------------------------------
(* ReflectionPadding2D.                                                    *)

\* args.padding as the constructor can receive it: absent, a number, an
\* array of numbers, or an array of arrays of numbers.
NoPadding == [kind |-> "null", n |-> 0, nums |-> <<>>, arrs |-> <<>>]
NumberPadding(p) == [kind |-> "number", n |-> p, nums |-> <<>>, arrs |-> <<>>]
NumbersPadding(s) == [kind |-> "numbers", n |-> 0, nums |-> s, arrs |-> <<>>]
ArraysPadding(s) == [kind |-> "arrays", n |-> 0, nums |-> <<>>, arrs |-> s]

Amounts == 0..MaxPad

PaddingArgs ==
    {NoPadding}
    \cup { NumberPadding(p) : p \in -1..(MaxDim + 1) }
    \cup { NumbersPadding(<<h, w>>) : h \in Amounts, w \in Amounts }
    \cup { NumbersPadding(s) : s \in {<<>>, <<1>>, <<1, 1, 1>>} }
    \cup { ArraysPadding(<<<<t, b>>, <<l, r>>>>) :
             t \in Amounts, b \in Amounts, l \in Amounts, r \in Amounts }
    \cup { ArraysPadding(s) :
             s \in { <<<<1, 1>>>>, <<<<1, 1>>, <<1, 1>>, <<1, 1>>>>,
                     <<<<1>>, <<1, 1>>>>, <<<<1, 1>>, <<1, 1, 1>>>> } }

\* args of the constructor: <<padding, dim_ordering>>, "null" for an absent
\* dim_ordering.
ReflectionPadding2DLayerArgs ==
    { <<a, "null">> : a \in PaddingArgs }
    \cup { <<a, "channelsFirst">> : a \in {NoPadding, NumberPadding(1)} }

\* A normalisation that spreads a pair [h, w] as [[h, w], [h, w]]: the
\* variant C16 rules out.
normalizePaddingPairAcross(a) ==
    IF a.kind = "null"
    THEN [threw |-> FALSE, padding |-> <<<<1, 1>>, <<1, 1>>>>]
    ELSE IF a.kind = "number"
    THEN [threw |-> FALSE, padding |-> <<<<a.n, a.n>>, <<a.n, a.n>>>>]
    ELSE IF a.kind = "numbers"
    THEN IF Len(a.nums) # 2
         THEN [threw |-> TRUE, padding |-> <<>>]
         ELSE [threw |-> FALSE,
               padding |-> <<<<a.nums[1], a.nums[2]>>, <<a.nums[1], a.nums[2]>>>>]
    ELSE IF Len(a.arrs) # 2 \/ Len(a.arrs[1]) # 2 \/ Len(a.arrs[2]) # 2
         THEN [threw |-> TRUE, padding |-> <<>>]
         ELSE [threw |-> FALSE, padding |-> <<a.arrs[1], a.arrs[2]>>]

\* The constructor's normalisation of args.padding: the [[top, bottom],
\* [left, right]] it stores, or the ValueError it throws.
normalizePadding(a) ==
    IF a.kind = "null"
    THEN [threw |-> FALSE, padding |-> <<<<1, 1>>, <<1, 1>>>>]
    ELSE IF a.kind = "number"
    THEN [threw |-> FALSE, padding |-> <<<<a.n, a.n>>, <<a.n, a.n>>>>]
    ELSE IF a.kind = "numbers"
    THEN IF Len(a.nums) # 2
         THEN [threw |-> TRUE, padding |-> <<>>]
         ELSE [threw |-> FALSE,
               padding |-> <<<<a.nums[1], a.nums[1]>>, <<a.nums[2], a.nums[2]>>>>]
    ELSE IF Len(a.arrs) # 2 \/ Len(a.arrs[1]) # 2 \/ Len(a.arrs[2]) # 2
         THEN [threw |-> TRUE, padding |-> <<>>]
         ELSE [threw |-> FALSE, padding |-> <<a.arrs[1], a.arrs[2]>>]

\* new ReflectionPadding2D({padding: a, dim_ordering: d})
NewReflectionPadding2D(a, d) ==
    /\ rpStatus = "none"
    /\ LET r == normalizePadding(a) IN
       /\ rpStatus' = IF r.threw THEN "ValueError" ELSE "ok"
       /\ rpPadding' = r.padding
       /\ rpDimOrdering' = IF r.threw THEN "" ELSE IF d = "null" THEN "default" ELSE d
    /\ UNCHANGED <<rpCall, rpX, rpOut, rpInShape, rpShape>>
    /\ UNCHANGED <<normVars, dpVars, stVars>>

\* An unknown dimension of an input shape (null).
NullDim == -1

\* computeOutputShape(inputShape) of a layer holding `padding`.
computeOutputShape(padding, inputShape) ==
    LET rows == IF inputShape[2] # NullDim /\ inputShape[2] >= 0
                THEN inputShape[2] + padding[1][1] + padding[1][2]
                ELSE NullDim
        cols == IF inputShape[3] # NullDim /\ inputShape[3] >= 0
                THEN inputShape[3] + padding[2][1] + padding[2][2]
                ELSE NullDim
    IN  <<inputShape[1], rows, cols, inputShape[4]>>

InputShapes ==
    { <<NullDim, h, w, 1>> : h \in 1..MaxDim \cup {NullDim},
                             w \in 1..MaxDim \cup {NullDim} }

\* layer.computeOutputShape(s)
RPComputeOutputShape(s) ==
    /\ rpStatus = "ok"
    /\ rpInShape' = s
    /\ rpShape' = computeOutputShape(rpPadding, s)
    /\ rpCall' = "none"
    /\ rpX' = <<>>
    /\ rpOut' = <<>>
    /\ UNCHANGED <<rpStatus, rpPadding, rpDimOrdering>>
    /\ UNCHANGED <<normVars, dpVars, stVars>>

\* layer.call(x) on a backend whose gather validates its indices (strict)
\* or does not.
RPCall(x, strict) ==
    /\ rpStatus = "ok"
    \* the two backends differ only where an index leaves its axis
    /\ strict \/ reflection2dPadding(x, rpPadding, TRUE).threw
    /\ LET r == reflection2dPadding(x, rpPadding, strict) IN
       /\ rpCall' = IF r.threw THEN "threw" ELSE "ok"
       /\ rpOut' = r.value
    /\ rpX' = x
    /\ rpInShape' = <<>>
    /\ rpShape' = <<>>
    /\ UNCHANGED <<rpStatus, rpPadding, rpDimOrdering>>
    /\ UNCHANGED <<normVars, dpVars, stVars>>

\* layer.call(x) of the ReflectionPadding2D of part_000.
RPCallArraySync(x) ==
    /\ rpStatus = "ok"
    /\ LET r == reflection2dPaddingArraySync(x, rpPadding) IN
       /\ rpCall' = IF r.threw THEN "threw" ELSE "ok"
       /\ rpOut' = r.value
    /\ rpX' = x
    /\ rpInShape' = <<>>
    /\ rpShape' = <<>>
    /\ UNCHANGED <<rpStatus, rpPadding, rpDimOrdering>>
    /\ UNCHANGED <<normVars, dpVars, stVars>>

\* No ReflectionPadding2D yet.
RPIdle ==
    /\ rpStatus = "none"
    /\ rpPadding = <<>>
    /\ rpDimOrdering = ""
    /\ rpCall = "none"
    /\ rpX = <<>>
    /\ rpOut = <<>>
    /\ rpInShape = <<>>
    /\ rpShape = <<>>


----------------------------------------------------------------------------
(* Arithmetic on numbers, exact on fractions <<n, d>> with d > 0 in lowest *)
(* terms.                                                                  *)

RECURSIVE gcd(_, _)
gcd(a, b) == IF b = 0 THEN a ELSE gcd(b, a % b)

abs(n) == IF n < 0 THEN 0 - n ELSE n

\* n / d in lowest terms, d # 0.
frac(n, d) ==
    LET g == gcd(abs(n), abs(d))
        sgn == IF d < 0 THEN 0 - 1 ELSE 1
    IN  <<(sgn * n) \div g, (sgn * d) \div g>>

numAdd(a, b) == frac(a[1] * b[2] + b[1] * a[2], a[2] * b[2])
numSub(a, b) == frac(a[1] * b[2] - b[1] * a[2], a[2] * b[2])
numMul(a, b) == frac(a[1] * b[1], a[2] * b[2])
\* a / b for b # 0.
numDiv(a, b) == frac(a[1] * b[2], a[2] * b[1])
\* The square root of a fraction whose numerator and denominator are squares.
numSqrt(a) ==
    <<CHOOSE r \in 0..a[1] : r * r = a[1], CHOOSE r \in 1..a[2] : r * r = a[2]>>

----------------------------------------------------------------------------
(* Element-wise tensor operations with broadcasting (tfjs-core), on 4-D    *)
(* tensors; a 1-D tensor of length D broadcasts as the shape [1, 1, 1, D]. *)

as4D(v) == <<<<<<v>>>>>>

\* Whether two shapes broadcast together.
broadcastable(sa, sb) ==
    \A i \in 1..4 : sa[i] = sb[i] \/ sa[i] = 1 \/ sb[i] = 1

assertAndGetBroadcastShape(sa, sb) ==
    [i \in 1..4 |-> IF sa[i] = 1 THEN sb[i] ELSE sa[i]]

\* The element of x (of shape s) that location <<i1, i2, i3, i4>> of the
\* broadcast result reads.
broadcastRead(x, s, i1, i2, i3, i4) ==
    x[IF s[1] = 1 THEN 1 ELSE i1][IF s[2] = 1 THEN 1 ELSE i2]
     [IF s[3] = 1 THEN 1 ELSE i3][IF s[4] = 1 THEN 1 ELSE i4]

binaryOp(Op(_, _), a, b) ==
    LET sa == shape(a)
        sb == shape(b)
        s == assertAndGetBroadcastShape(sa, sb)
    IN  array([i1 \in 1..s[1] |-> array([i2 \in 1..s[2] |->
            array([i3 \in 1..s[3] |-> array([i4 \in 1..s[4] |->
                Op(broadcastRead(a, sa, i1, i2, i3, i4),
                   broadcastRead(b, sb, i1, i2, i3, i4))])])])])

add(a, b) == binaryOp(numAdd, a, b)
sub(a, b) == binaryOp(numSub, a, b)
mul(a, b) == binaryOp(numMul, a, b)
div(a, b) == binaryOp(numDiv, a, b)

\* reshape of a 1-D tensor v to the 4-D shape s (row-major), where the
\* sizes agree.
reshape(v, s) ==
    array([i1 \in 1..s[1] |-> array([i2 \in 1..s[2] |->
        array([i3 \in 1..s[3] |-> array([i4 \in 1..s[4] |->
            v[(((i1 - 1) * s[2] + (i2 - 1)) * s[3] + (i3 - 1)) * s[4] + i4]])])])])

sizeFromShape(s) == s[1] * s[2] * s[3] * s[4]

\* The sum of the elements of x at the locations in S.
RECURSIVE sumAt(_, _)
sumAt(x, S) ==
    IF S = {} THEN Num(0)
    ELSE LET i == CHOOSE i \in S : TRUE
         IN  numAdd(x[i[1]][i[2]][i[3]][i[4]], sumAt(x, S \ {i}))

\* tfc.moments(x, axes) where axes (0-based) are all the axes of x but one:
\* the mean and the variance of every slice of the axis that is kept, as
\* 1-D tensors.
moments(x, axes) ==
    LET s == shape(x)
        kept == CHOOSE a \in 0..3 : \A n \in 1..Len(axes) : axes[n] # a
        D == s[kept + 1]
        slice(k) == { i \in (1..s[1]) \X (1..s[2]) \X (1..s[3]) \X (1..s[4]) :
                        i[kept + 1] = k }
        count == Num(sizeFromShape(s) \div D)
        mean == array([k \in 1..D |-> numDiv(sumAt(x, slice(k)), count)])
        squares == array([i1 \in 1..s[1] |-> array([i2 \in 1..s[2] |->
                     array([i3 \in 1..s[3] |-> array([i4 \in 1..s[4] |->
                       LET d == numSub(x[i1][i2][i3][i4],
                                       mean[<<i1, i2, i3, i4>>[kept + 1]])
                       IN  numMul(d, d)])])])])
        variance == array([k \in 1..D |-> numDiv(sumAt(squares, slice(k)), count)])
    IN  [mean |-> mean, variance |-> variance]

\* tfc.dot(v, m) of a 1-D v and a 2-D m (a sequence of rows of length dim),
\* where Len(v) = Len(m).
RECURSIVE dotColumn(_, _, _, _)
dotColumn(v, m, c, n) ==
    IF n = 0 THEN Num(0)
    ELSE numAdd(numMul(Num(v[n]), m[n][c]), dotColumn(v, m, c, n - 1))

dot(v, m, dim) == array([c \in 1..dim |-> dotColumn(v, m, c, Len(v))])

----------------------------------------------------------------------------
(* InstanceNormalization and ConditionalInstanceNormalization.             *)
(* An optional argument or field is <<>> when absent (null, undefined) and *)
(* <<v>> when it holds v. A weight is [shape, v]: its shape and its values *)
(* (a vector, or a sequence of rows); NoWeight is null. this.sw is <<>>    *)
(* while unset: build() never leaves it empty.                             *)

truthy(o) == o = <<TRUE>>

NoWeight == [shape |-> <<>>, v |-> <<>>]

\* initializers "ones" and "zeros" on the shape [dim].
ones(dim) == [shape |-> <<dim>>, v |-> array([c \in 1..dim |-> Num(1)])]
zeros(dim) == [shape |-> <<dim>>, v |-> array([c \in 1..dim |-> Num(0)])]
\* ... and on the shape [rows, dim]; no row where rows is not a number.
onesTable(rows, dim) ==
    [shape |-> <<rows, dim>>,
     v |-> array([i \in 1..(IF rows > 0 THEN rows ELSE 0) |-> ones(dim).v])]
zerosTable(rows, dim) ==
    [shape |-> <<rows, dim>>,
     v |-> array([i \in 1..(IF rows > 0 THEN rows ELSE 0) |-> zeros(dim).v])]

\* Whether name is an entry of names.
includes(names, name) == \E n \in 1..Len(names) : names[n] = name

\* Layer.addWeight(name, shape, ...) on layer l: a name added before throws
\* the ValueError; otherwise the name is recorded, then the initializer
\* makes the value (or refuses the shape and throws), then the weight is
\* listed. The caller assigns the weight it returns.
addWeight(l, name, refused) ==
    IF includes(l.addedWeightNames, name)
    THEN [threw |-> "ValueError", layer |-> l]
    ELSE LET named == [l EXCEPT !.addedWeightNames = Append(@, name)] IN
         IF refused
         THEN [threw |-> "Error", layer |-> named]
         ELSE [threw |-> "", layer |-> [named EXCEPT !.weights = Append(@, name)]]

\* The layer object before its constructor has run.
NoLayer ==
    [className |-> "none", axis |-> 0, epsilon |-> Num(0), center |-> <<>>,
     scale |-> <<>>, style_num |-> <<>>, built |-> FALSE, inputSpec |-> <<>>,
     gamma |-> NoWeight, beta |-> NoWeight, sw |-> <<>>, weights |-> <<>>,
     addedWeightNames |-> <<>>]

\* epsilon's default, 1e-3.
defaultEpsilon == frac(1, 1000)

\* new InstanceNormalization(args)
instanceNormalization(args) ==
    [NoLayer EXCEPT
        !.className = "InstanceNormalization",
        !.axis = IF args.axis = <<>> THEN 0 - 1 ELSE args.axis[1],
        !.epsilon = IF args.epsilon = <<>> THEN defaultEpsilon ELSE args.epsilon[1],
        !.center = args.center,
        !.scale = args.scale]

\* new ConditionalInstanceNormalization(args)
conditionalInstanceNormalization(args) ==
    [NoLayer EXCEPT
        !.className = "ConditionalInstanceNormalization",
        !.axis = IF args.axis = <<>> THEN 0 - 1 ELSE args.axis[1],
        !.epsilon = IF args.epsilon = <<>> THEN defaultEpsilon ELSE args.epsilon[1],
        !.center = args.center,
        !.scale = args.scale,
        !.style_num = args.styleNum]

\* const axis = this.axis >= 0 ? this.axis : (this.axis + ndim)
normalizedAxis(thisAxis, ndim) == IF thisAxis >= 0 THEN thisAxis ELSE thisAxis + ndim

\* inputShape[axis]: null where axis is no index of inputShape.
dimAt(inputShape, axis) ==
    IF axis + 1 \in 1..Len(inputShape) THEN inputShape[axis + 1] ELSE NullDim

\* InstanceNormalization.build(inputShape) with the inputSpec assignment
\* moved ahead of the check of the channel size: the variant C8 rules out.
instanceNormalizationBuildSpecFirst(l, inputShape) ==
    LET axis == normalizedAxis(l.axis, Len(inputShape))
        dim == dimAt(inputShape, axis)
        spec == [l EXCEPT !.inputSpec = <<Len(inputShape), axis, dim>>]
        g == IF truthy(l.scale) THEN addWeight(spec, "gamma", FALSE)
             ELSE [threw |-> "", layer |-> spec]
        withGamma == [g.layer EXCEPT
                        !.gamma = IF truthy(l.scale) THEN ones(dim) ELSE NoWeight]
        b == IF truthy(l.center) THEN addWeight(withGamma, "beta", FALSE)
             ELSE [threw |-> "", layer |-> withGamma]
        withBeta == [b.layer EXCEPT
                        !.beta = IF truthy(l.center) THEN zeros(dim) ELSE NoWeight]
    IN  IF dim = NullDim
        THEN [threw |-> "ValueError", layer |-> spec]
        ELSE IF g.threw # "" THEN g
        ELSE IF b.threw # "" THEN b
        ELSE [threw |-> "", layer |-> [withBeta EXCEPT !.built = TRUE]]

\* InstanceNormalization.build(inputShape): the layer afterwards, and what
\* it threw ("" for nothing). A build() of a layer that holds a weight
\* already replaces inputSpec and throws in addWeight.
instanceNormalizationBuild(l, inputShape) ==
    LET axis == normalizedAxis(l.axis, Len(inputShape))
        dim == dimAt(inputShape, axis)
        spec == [l EXCEPT !.inputSpec = <<Len(inputShape), axis, dim>>]
        g == IF truthy(l.scale) THEN addWeight(spec, "gamma", FALSE)
             ELSE [threw |-> "", layer |-> spec]
        withGamma == [g.layer EXCEPT
                        !.gamma = IF truthy(l.scale) THEN ones(dim) ELSE NoWeight]
        b == IF truthy(l.center) THEN addWeight(withGamma, "beta", FALSE)
             ELSE [threw |-> "", layer |-> withGamma]
        withBeta == [b.layer EXCEPT
                        !.beta = IF truthy(l.center) THEN zeros(dim) ELSE NoWeight]
    IN  IF dim = NullDim
        THEN [threw |-> "ValueError", layer |-> l]
        ELSE IF g.threw # "" THEN g
        ELSE IF b.threw # "" THEN b
        ELSE [threw |-> "", layer |-> [withBeta EXCEPT !.built = TRUE]]

\* this.sw = []; style_num times push(0); this.sw[0] = 1
selector(style_num) ==
    LET n == IF style_num = <<>> THEN 0 ELSE style_num[1]
    IN  <<1>> \o array([i \in 1..(IF n > 1 THEN n - 1 ELSE 0) |-> 0])

\* ConditionalInstanceNormalization.build(inputShape). Where style_num is
\* undefined the initializer either refuses the weight shape [undefined,
\* dim] (strict) or gives a table of no rows. A build() of a layer that
\* holds the name "gamma" already sets inputSpec and sw again and throws in
\* addWeight.
conditionalInstanceNormalizationBuild(l, inputShape, strict) ==
    LET axis == normalizedAxis(l.axis, Len(inputShape))
        dim == dimAt(inputShape, axis)
        rows == IF l.style_num = <<>> THEN NullDim ELSE l.style_num[1]
        refused == l.style_num = <<>> /\ strict
        set == [l EXCEPT !.inputSpec = <<Len(inputShape), axis, dim>>,
                         !.sw = selector(l.style_num)]
        g == addWeight(set, "gamma", refused)
        withGamma == [g.layer EXCEPT !.gamma = onesTable(rows, dim)]
        b == addWeight(withGamma, "beta", refused)
        withBeta == [b.layer EXCEPT !.beta = zerosTable(rows, dim)]
    IN  IF dim = NullDim
        THEN [threw |-> "ValueError", layer |-> l]
        ELSE IF g.threw # "" THEN g
        ELSE IF b.threw # "" THEN b
        ELSE [threw |-> "", layer |-> [withBeta EXCEPT !.built = TRUE]]

\* const reductionAxes = math_utils.range(0, ndim);
\* reductionAxes.splice(axis, 1)
reductionAxes(ndim, axis) ==
    LET range == [i \in 1..ndim |-> i - 1]
        start == IF axis < 0 THEN (IF ndim + axis > 0 THEN ndim + axis ELSE 0)
                 ELSE (IF axis < ndim THEN axis ELSE ndim)
    IN  array([i \in 1..(IF start < ndim THEN ndim - 1 ELSE ndim) |->
                  IF i <= start THEN range[i] ELSE range[i + 1]])

\* const broadcastShape = generic_utils.pyListRepeat(1, ndim);
\* broadcastShape[axis] = inputShape[axis]
broadcastShape(inputShape, axis) ==
    [i \in 1..Len(inputShape) |-> IF i = axis + 1 THEN inputShape[i] ELSE 1]

\* input.sub(mean).div(stddev) with stddev = sqrt(variance) + epsilon, the
\* moments taken over reductionAxes: [threw, value].
standardize(x, thisAxis, epsilon) ==
    LET inputShape == shape(x)
        ndim == Len(inputShape)
        axis == normalizedAxis(thisAxis, ndim)
        meanAndVar == moments(x, reductionAxes(ndim, axis))
        mean == meanAndVar.mean
        stddev == array([k \in 1..Len(mean) |->
                     numAdd(numSqrt(meanAndVar.variance[k]), epsilon)])
        statShape == <<1, 1, 1, Len(mean)>>
    IN  IF ~broadcastable(inputShape, statShape)
        THEN [threw |-> TRUE, value |-> <<>>]
        ELSE [threw |-> FALSE, value |-> div(sub(x, as4D(mean)), as4D(stddev))]

\* A scale-and-shift that adds beta only under scale: the variant C7 rules
\* out.
scaleAndShiftNested(normed, bshape, scale, gamma, center, beta) ==
    LET badReshape(w) == Len(w) # sizeFromShape(bshape)
        badOp == ~broadcastable(shape(normed), bshape)
        scaled == mul(normed, reshape(gamma, bshape))
    IN  IF \/ scale /\ (badReshape(gamma) \/ badOp)
           \/ scale /\ center /\ (badReshape(beta) \/ badOp)
        THEN [threw |-> TRUE, value |-> <<>>]
        ELSE [threw |-> FALSE,
              value |-> IF scale
                        THEN IF center THEN add(scaled, reshape(beta, bshape))
                             ELSE scaled
                        ELSE normed]

\* normed.mul(broadcastGamma) where scale, .add(broadcastBeta) where center;
\* gamma and beta are 1-D tensors reshaped to bshape: [threw, value].
scaleAndShift(normed, bshape, scale, gamma, center, beta) ==
    LET badReshape(w) == Len(w) # sizeFromShape(bshape)
        badOp == ~broadcastable(shape(normed), bshape)
        scaled == IF scale THEN mul(normed, reshape(gamma, bshape)) ELSE normed
    IN  IF \/ scale /\ (badReshape(gamma) \/ badOp)
           \/ center /\ (badReshape(beta) \/ badOp)
        THEN [threw |-> TRUE, value |-> <<>>]
        ELSE [threw |-> FALSE,
              value |-> IF center THEN add(scaled, reshape(beta, bshape)) ELSE scaled]

\* InstanceNormalization.call(x) of layer l: [threw, value].
instanceNormalizationCall(l, x) ==
    LET inputShape == shape(x)
        axis == normalizedAxis(l.axis, Len(inputShape))
        normed == standardize(x, l.axis, l.epsilon)
    IN  IF normed.threw THEN normed
        ELSE scaleAndShift(normed.value, broadcastShape(inputShape, axis),
                           truthy(l.scale), l.gamma.v, truthy(l.center), l.beta.v)

\* A conditional call that takes its shift from the gamma table: the
\* variant C9 rules out.
conditionalInstanceNormalizationCallGammaTwice(l, x) ==
    LET inputShape == shape(x)
        axis == normalizedAxis(l.axis, Len(inputShape))
        bshape == broadcastShape(inputShape, axis)
        normed == standardize(x, l.axis, l.epsilon)
        dim == l.beta.shape[2]
    IN  IF normed.threw THEN normed
        ELSE IF l.sw # <<>>
        THEN IF Len(l.sw) # l.beta.shape[1] \/ Len(l.sw) # l.gamma.shape[1]
             THEN [threw |-> TRUE, value |-> <<>>]
             ELSE scaleAndShift(normed.value, bshape,
                                TRUE, dot(l.sw, l.gamma.v, dim),
                                TRUE, dot(l.sw, l.gamma.v, dim))
        ELSE scaleAndShift(normed.value, bshape,
                           truthy(l.scale), l.gamma.v, truthy(l.center), l.beta.v)

\* A conditional call whose dot does not compare the selector with the rows
\* of the tables and falls back to no scale and no shift: the variant C11
\* rules out.
conditionalInstanceNormalizationCallUnchecked(l, x) ==
    LET inputShape == shape(x)
        axis == normalizedAxis(l.axis, Len(inputShape))
        bshape == broadcastShape(inputShape, axis)
        normed == standardize(x, l.axis, l.epsilon)
        dim == l.beta.shape[2]
    IN  IF normed.threw THEN normed
        ELSE IF l.sw # <<>>
        THEN IF Len(l.sw) # l.beta.shape[1] \/ Len(l.sw) # l.gamma.shape[1]
             THEN normed
             ELSE scaleAndShift(normed.value, bshape,
                                TRUE, dot(l.sw, l.gamma.v, dim),
                                TRUE, dot(l.sw, l.beta.v, dim))
        ELSE scaleAndShift(normed.value, bshape,
                           truthy(l.scale), l.gamma.v, truthy(l.center), l.beta.v)

\* ConditionalInstanceNormalization.call(x) of layer l: [threw, value].
conditionalInstanceNormalizationCall(l, x) ==
    LET inputShape == shape(x)
        axis == normalizedAxis(l.axis, Len(inputShape))
        bshape == broadcastShape(inputShape, axis)
        normed == standardize(x, l.axis, l.epsilon)
        dim == l.beta.shape[2]
    IN  IF normed.threw THEN normed
        ELSE IF l.sw # <<>>
        THEN IF Len(l.sw) # l.beta.shape[1] \/ Len(l.sw) # l.gamma.shape[1]
             THEN [threw |-> TRUE, value |-> <<>>]
             ELSE scaleAndShift(normed.value, bshape,
                                TRUE, dot(l.sw, l.gamma.v, dim),
                                TRUE, dot(l.sw, l.beta.v, dim))
        ELSE scaleAndShift(normed.value, bshape,
                           truthy(l.scale), l.gamma.v, truthy(l.center), l.beta.v)

----------------------------------------------------------------------------
(* The normalization layers' operations.                                   *)

Flags == {<<>>, <<TRUE>>, <<FALSE>>}

InstanceNormalizationLayerArgs ==
    [axis : {<<>>, <<3>>, <<0>>}, epsilon : {<<>>, <<Num(1)>>},
     center : Flags, scale : Flags]

ConditionalInstanceNormalizationLayerArgs ==
    [axis : {<<>>, <<3>>, <<0>>}, epsilon : {<<>>, <<Num(1)>>},
     center : Flags, scale : Flags,
     styleNum : {<<>>} \cup { <<n>> : n \in 0..MaxStyle }]

\* The input shapes of build(): [batch, 1, 2, channels], batch and channels
\* known or not.
NormInputShapes ==
    { <<b, 1, 2, c>> : b \in {NullDim, 1, 2}, c \in {NullDim, 1, 2} }

\* A tensor of shape [B, 1, 2, C] from its integers.
Tensor(t) ==
    array([b \in 1..Len(t) |-> <<array([w \in 1..2 |->
        array([c \in 1..Len(t[b][w]) |-> Num(t[b][w][c])])])>>])

\* The input tensors of call(): the variance of every slice a layer
\* standardizes is the square of a fraction.
NormInputs ==
    { Tensor(<<<<<<0>>, <<2>>>>>>),
      Tensor(<<<<<<1>>, <<1>>>>, <<<<3>>, <<3>>>>>>),
      Tensor(<<<<<<0, 2>>, <<2, 0>>>>>>),
      Tensor(<<<<<<0, 2>>, <<0, 2>>>>, <<<<2, 0>>, <<2, 0>>>>>>) }

\* Layer.apply's check of an input against this.inputSpec = [ndim, axis, dim].
assertInputCompatibility(inputSpec, x) ==
    /\ Len(shape(x)) = inputSpec[1]
    /\ shape(x)[inputSpec[2] + 1] = inputSpec[3]

\* The weights after training: every entry differs from every other and
\* from its initial value.
trained(w, base) ==
    IF Len(w.shape) = 1
    THEN [w EXCEPT !.v = array([c \in 1..Len(w.v) |-> Num(c + base)])]
    ELSE IF Len(w.shape) = 2
    THEN [w EXCEPT !.v = array([i \in 1..Len(w.v) |->
            array([c \in 1..Len(w.v[i]) |-> Num(10 * i + c + base)])])]
    ELSE w

NewInstanceNormalization(args) ==
    /\ norm.className = "none"
    /\ norm' = instanceNormalization(args)
    /\ normOp' = "new"
    /\ UNCHANGED <<normErr, normInShape, normX, normOut>>
    /\ UNCHANGED <<rpVars, dpVars, stVars>>

NewConditionalInstanceNormalization(args) ==
    /\ norm.className = "none"
    /\ norm' = conditionalInstanceNormalization(args)
    /\ normOp' = "new"
    /\ UNCHANGED <<normErr, normInShape, normX, normOut>>
    /\ UNCHANGED <<rpVars, dpVars, stVars>>

\* layer.build(inputShape): Layer.apply runs it while the layer is not
\* built, and a caller may run it at any time.
INBuild(inputShape) ==
    /\ norm.className = "InstanceNormalization"
    /\ LET r == instanceNormalizationBuild(norm, inputShape) IN
       /\ norm' = r.layer
       /\ normErr' = r.threw
    /\ normOp' = "build"
    /\ normInShape' = inputShape
    /\ normX' = <<>>
    /\ normOut' = <<>>
    /\ UNCHANGED <<rpVars, dpVars, stVars>>

CINBuild(inputShape, strict) ==
    /\ norm.className = "ConditionalInstanceNormalization"
    /\ strict \/ norm.style_num = <<>>
    /\ LET r == conditionalInstanceNormalizationBuild(norm, inputShape, strict) IN
       /\ norm' = r.layer
       /\ normErr' = r.threw
    /\ normOp' = "build"
    /\ normInShape' = inputShape
    /\ normX' = <<>>
    /\ normOut' = <<>>
    /\ UNCHANGED <<rpVars, dpVars, stVars>>

\* Training writes the weights of a built layer.
Train ==
    /\ norm.built
    /\ norm' = [norm EXCEPT !.gamma = trained(@, 1), !.beta = trained(@, 0)]
    /\ normOp' = "train"
    /\ normErr' = ""
    /\ normInShape' = <<>>
    /\ normX' = <<>>
    /\ normOut' = <<>>
    /\ UNCHANGED <<rpVars, dpVars, stVars>>

INCall(x) ==
    /\ norm.className = "InstanceNormalization"
    /\ norm.built
    /\ assertInputCompatibility(norm.inputSpec, x)
    /\ LET r == instanceNormalizationCall(norm, x) IN
       /\ normErr' = IF r.threw THEN "Error" ELSE ""
       /\ normOut' = r.value
    /\ normOp' = "call"
    /\ normInShape' = <<>>
    /\ normX' = x
    /\ UNCHANGED norm
    /\ UNCHANGED <<rpVars, dpVars, stVars>>

\* A conditional call that writes its gamma table, as a layer keeping
\* running statistics would: the variant C17 rules out.
CINCallWritingGamma(x) ==
    /\ norm.className = "ConditionalInstanceNormalization"
    /\ norm.built
    /\ assertInputCompatibility(norm.inputSpec, x)
    /\ LET r == conditionalInstanceNormalizationCall(norm, x) IN
       /\ normErr' = IF r.threw THEN "Error" ELSE ""
       /\ normOut' = r.value
    /\ normOp' = "call"
    /\ normInShape' = <<>>
    /\ normX' = x
    /\ norm' = [norm EXCEPT !.gamma = trained(@, 1)]
    /\ UNCHANGED <<rpVars, dpVars, stVars>>

CINCall(x) ==
    /\ norm.className = "ConditionalInstanceNormalization"
    /\ norm.built
    /\ assertInputCompatibility(norm.inputSpec, x)
    /\ LET r == conditionalInstanceNormalizationCall(norm, x) IN
       /\ normErr' = IF r.threw THEN "Error" ELSE ""
       /\ normOut' = r.value
    /\ normOp' = "call"
    /\ normInShape' = <<>>
    /\ normX' = x
    /\ UNCHANGED norm
    /\ UNCHANGED <<rpVars, dpVars, stVars>>

\* No normalization layer yet.
NormIdle ==
    /\ norm = NoLayer
    /\ normOp = "none"
    /\ normErr = ""
    /\ normInShape = <<>>
    /\ normX = <<>>
    /\ normOut = <<>>


----------------------------------------------------------------------------
(* DeprocessStylizedImage (layers/deprocess.ts and part_001).              *)

DeprocessFiles == {"deprocess.ts", "part_001"}

\* args of the constructor: activation absent or given.
DeprocessStylizedImageLayerArgs ==
    [activation : {<<>>, <<"sigmoid">>, <<"tanh">>, <<"relu">>}]

NoDeprocess == [file |-> "none", activation |-> <<>>]

\* new DeprocessStylizedImage(args) of deprocess.ts: the activation
\* defaults to "sigmoid".
deprocessStylizedImageLayers(args) ==
    [file |-> "deprocess.ts",
     activation |-> IF args.activation = <<>> THEN <<"sigmoid">> ELSE args.activation]

\* new DeprocessStylizedImage(args) of part_001: args.activation as it is.
deprocessStylizedImagePart001(args) ==
    [file |-> "part_001", activation |-> args.activation]

deprocessStylizedImage(file, args) ==
    IF file = "deprocess.ts" THEN deprocessStylizedImageLayers(args)
    ELSE deprocessStylizedImagePart001(args)

\* A scalar operand of a binary op.
scalar(n) == as4D(<<n>>)

\* call(inputs) of deprocess.ts: returns its inputs.
deprocessStylizedImageLayersCall(l, x) == x

\* call(inputs) of part_001: (x + 1.0) * 127.5 for "tanh" and x * 255 for
\* anything else.
deprocessStylizedImagePart001Call(l, x) ==
    IF l.activation = <<"tanh">>
    THEN mul(add(x, scalar(Num(1))), scalar(frac(255, 2)))
    ELSE mul(x, scalar(Num(255)))

deprocessStylizedImageCall(l, x) ==
    IF l.file = "deprocess.ts" THEN deprocessStylizedImageLayersCall(l, x)
    ELSE deprocessStylizedImagePart001Call(l, x)

\* A tensor of shape [1, 1, W, 1] from its W numbers.
Image(values) == <<<<array([w \in 1..Len(values) |-> <<values[w]>>])>>>>

Pixels == {Num(-1), Num(0), Num(1), frac(1, 2)}

DeprocessInputs ==
    { Image(<<a>>) : a \in Pixels } \cup { Image(<<a, b>>) : a \in Pixels, b \in Pixels }

NewDeprocessStylizedImage(file, args) ==
    /\ dp.file = "none"
    /\ dp' = deprocessStylizedImage(file, args)
    /\ dpOp' = "new"
    /\ UNCHANGED <<dpX, dpOut>>
    /\ UNCHANGED <<rpVars, normVars, stVars>>

DPCall(x) ==
    /\ dp.file # "none"
    /\ dpOut' = deprocessStylizedImageCall(dp, x)
    /\ dpX' = x
    /\ dpOp' = "call"
    /\ UNCHANGED dp
    /\ UNCHANGED <<rpVars, normVars, stVars>>

\* No DeprocessStylizedImage yet.
DPIdle ==
    /\ dp = NoDeprocess
    /\ dpOp = "none"
    /\ dpX = <<>>
    /\ dpOut = <<>>

----------------------------------------------------------------------------
(* getConfig() and the construction of a layer from the record it returns  *)
(* (the keys Layer.getConfig adds are read by Layer alone and left out).   *)

\* config[key], undefined where the record has no such key.
optionOf(config, key) == IF key \in DOMAIN config THEN config[key] ELSE <<>>

reflectionPadding2DGetConfig(padding) == [padding |-> <<padding>>]

instanceNormalizationGetConfig(l) ==
    [axis |-> <<l.axis>>, epsilon |-> <<l.epsilon>>,
     center |-> l.center, scale |-> l.scale]

conditionalInstanceNormalizationGetConfig(l) ==
    [axis |-> <<l.axis>>, epsilon |-> <<l.epsilon>>,
     center |-> l.center, scale |-> l.scale, style_num |-> l.style_num]

\* super.getConfig(): no key of the layer's own.
deprocessStylizedImageGetConfig(l) == [key \in {} |-> <<>>]

\* new ReflectionPadding2D(layer.getConfig())
RPFromConfig ==
    /\ rpStatus = "ok"
    /\ LET config == reflectionPadding2DGetConfig(rpPadding)
           padding == optionOf(config, "padding")
           d == optionOf(config, "dim_ordering")
           r == normalizePadding(IF padding = <<>> THEN NoPadding
                                 ELSE ArraysPadding(padding[1]))
       IN  /\ rpStatus' = IF r.threw THEN "ValueError" ELSE "ok"
           /\ rpPadding' = r.padding
           /\ rpDimOrdering' = IF r.threw THEN ""
                                ELSE IF d = <<>> THEN "default" ELSE d[1]
    /\ rpCall' = "none"
    /\ rpX' = <<>>
    /\ rpOut' = <<>>
    /\ rpInShape' = <<>>
    /\ rpShape' = <<>>
    /\ UNCHANGED <<normVars, dpVars, stVars>>

\* new InstanceNormalization(layer.getConfig())
INFromConfig ==
    /\ norm.className = "InstanceNormalization"
    /\ LET config == instanceNormalizationGetConfig(norm) IN
       norm' = instanceNormalization(
                  [axis |-> optionOf(config, "axis"),
                   epsilon |-> optionOf(config, "epsilon"),
                   center |-> optionOf(config, "center"),
                   scale |-> optionOf(config, "scale")])
    /\ normOp' = "fromConfig"
    /\ normErr' = ""
    /\ normInShape' = <<>>
    /\ normX' = <<>>
    /\ normOut' = <<>>
    /\ UNCHANGED <<rpVars, dpVars, stVars>>

\* new ConditionalInstanceNormalization(layer.getConfig())
CINFromConfig ==
    /\ norm.className = "ConditionalInstanceNormalization"
    /\ LET config == conditionalInstanceNormalizationGetConfig(norm) IN
       norm' = conditionalInstanceNormalization(
                  [axis |-> optionOf(config, "axis"),
                   epsilon |-> optionOf(config, "epsilon"),
                   center |-> optionOf(config, "center"),
                   scale |-> optionOf(config, "scale"),
                   styleNum |-> optionOf(config, "styleNum")])
    /\ normOp' = "fromConfig"
    /\ normErr' = ""
    /\ normInShape' = <<>>
    /\ normX' = <<>>
    /\ normOut' = <<>>
    /\ UNCHANGED <<rpVars, dpVars, stVars>>

\* new DeprocessStylizedImage(layer.getConfig()), of the layer's own file
DPFromConfig ==
    /\ dp.file # "none"
    /\ LET config == deprocessStylizedImageGetConfig(dp) IN
       dp' = deprocessStylizedImage(dp.file,
                [activation |-> optionOf(config, "activation")])
    /\ dpOp' = "fromConfig"
    /\ dpX' = <<>>
    /\ dpOut' = <<>>
    /\ UNCHANGED <<rpVars, normVars, stVars>>

NextPad ==
    \/ \E args \in ReflectionPadding2DLayerArgs :
          NewReflectionPadding2D(args[1], args[2])
    \/ \E s \in InputShapes : RPComputeOutputShape(s)
    \/ \E x \in PadInputs, strict \in BOOLEAN : RPCall(x, strict)
    \/ \E x \in PadInputs : RPCallArraySync(x)
    \/ RPFromConfig

NextNorm ==
    \/ \E args \in InstanceNormalizationLayerArgs : NewInstanceNormalization(args)
    \/ \E args \in ConditionalInstanceNormalizationLayerArgs :
          NewConditionalInstanceNormalization(args)
    \/ \E inputShape \in NormInputShapes : INBuild(inputShape)
    \/ \E inputShape \in NormInputShapes, strict \in BOOLEAN :
          CINBuild(inputShape, strict)
    \/ Train
    \/ \E x \in NormInputs : INCall(x)
    \/ \E x \in NormInputs : CINCall(x)
    \/ INFromConfig
    \/ CINFromConfig

NextDeprocess ==
    \/ \E file \in DeprocessFiles, args \in DeprocessStylizedImageLayerArgs :
          NewDeprocessStylizedImage(file, args)
    \/ \E x \in DeprocessInputs : DPCall(x)
    \/ DPFromConfig

----------------------------------------------------------------------------
(* StyleTranfer (integration_rn59/components/webcam/style_transfer.ts).    *)
(* An async function runs to its await when called and resumes when the    *)
(* promise it awaits settles; calls and resumptions interleave freely.     *)

\* The part of loadStyleModel() / loadTransformerModel() up to the await:
\* where the field is still undefined, tf.loadGraphModel is called and
\* awaited; otherwise the function returns at once.
loadModel(model, net) ==
    IF net = 0
    THEN [fetches |-> [fetches EXCEPT ![model] = @ + 1],
          load |-> {[model |-> model, id |-> fetches[model] + 1]}]
    ELSE [fetches |-> fetches, load |-> {}]

\* styleTranfer.loadStyleModel() is called.
LoadStyleModel ==
    /\ styleNet # 0 \/ fetches["style"] < MaxFetch
    /\ LET r == loadModel("style", styleNet) IN
       /\ fetches' = r.fetches
       /\ pending' = pending \cup r.load
    /\ UNCHANGED <<styleNet, transformNet, inits, tested>>
    /\ UNCHANGED <<rpVars, normVars, dpVars>>

\* styleTranfer.loadTransformerModel() is called.
LoadTransformerModel ==
    /\ transformNet # 0 \/ fetches["transformer"] < MaxFetch
    /\ LET r == loadModel("transformer", transformNet) IN
       /\ fetches' = r.fetches
       /\ pending' = pending \cup r.load
    /\ UNCHANGED <<styleNet, transformNet, inits, tested>>
    /\ UNCHANGED <<rpVars, normVars, dpVars>>

\* styleTranfer.init() is called: both loads start, and init awaits them.
InitCalled ==
    /\ Len(inits) + tested < MaxInit
    /\ styleNet # 0 \/ fetches["style"] < MaxFetch
    /\ transformNet # 0 \/ fetches["transformer"] < MaxFetch
    /\ LET s == loadModel("style", styleNet)
           t == loadModel("transformer", transformNet)
       IN  /\ fetches' = [style |-> s.fetches["style"],
                          transformer |-> t.fetches["transformer"]]
           /\ pending' = pending \cup s.load \cup t.load
           /\ inits' = Append(inits, s.load \cup t.load)
    /\ UNCHANGED <<styleNet, transformNet, tested>>
    /\ UNCHANGED <<rpVars, normVars, dpVars>>

\* A tf.loadGraphModel resolves: the function awaiting it assigns the
\* field and returns.
LoadResolved(load) ==
    /\ load \in pending
    /\ pending' = pending \ {load}
    /\ styleNet' = IF load.model = "style" THEN load.id ELSE styleNet
    /\ transformNet' = IF load.model = "transformer" THEN load.id ELSE transformNet
    /\ UNCHANGED <<fetches, inits, tested>>
    /\ UNCHANGED <<rpVars, normVars, dpVars>>

\* The Promise.all of the k-th waiting init() resolves: testStylization().
InitResumed(k) ==
    /\ k \in 1..Len(inits)
    /\ inits[k] \cap pending = {}
    /\ inits' = SubSeq(inits, 1, k - 1) \o SubSeq(inits, k + 1, Len(inits))
    /\ tested' = tested + 1
    /\ UNCHANGED <<styleNet, transformNet, fetches, pending>>
    /\ UNCHANGED <<rpVars, normVars, dpVars>>

\* A StyleTranfer as constructed.
STIdle ==
    /\ styleNet = 0
    /\ transformNet = 0
    /\ fetches = [style |-> 0, transformer |-> 0]
    /\ pending = {}
    /\ inits = <<>>
    /\ tested = 0

NextStyle ==
    \/ LoadStyleModel
    \/ LoadTransformerModel
    \/ InitCalled
    \/ \E load \in pending : LoadResolved(load)
    \/ \E k \in 1..MaxInit : InitResumed(k)

InitPad == RPIdle /\ NormIdle /\ DPIdle /\ STIdle
InitNorm == RPIdle /\ NormIdle /\ DPIdle /\ STIdle
InitDeprocess == RPIdle /\ NormIdle /\ DPIdle /\ STIdle
InitStyle == RPIdle /\ NormIdle /\ DPIdle /\ STIdle

SpecPad == InitPad /\ [][NextPad]_vars
SpecNorm == InitNorm /\ [][NextNorm]_vars
SpecDeprocess == InitDeprocess /\ [][NextDeprocess]_vars
SpecStyle == InitStyle /\ [][NextStyle]_vars

----------------------------------------------------------------------------
(* Claims about ReflectionPadding2D, checked under SpecPad.                *)

top == rpPadding[1][1]
bottom == rpPadding[1][2]
left == rpPadding[2][1]
right == rpPadding[2][2]

\* The padding the layer holds is valid for the input of the last call():
\* every amount is at least 0 and at most the extent it pads minus 1.
ValidPadding ==
    /\ top \in 0..(shape(rpX)[2] - 1) /\ bottom \in 0..(shape(rpX)[2] - 1)
    /\ left \in 0..(shape(rpX)[3] - 1) /\ right \in 0..(shape(rpX)[3] - 1)

\* The four amounts are one and the same.
UniformPadding == top = bottom /\ left = right /\ top = left

\* Standard reflection of an index into [0, n): -k to k, n-1+k to n-1-k.
reflect(i, n) == IF i < 0 THEN 0 - i ELSE IF i >= n THEN 2 * (n - 1) - i ELSE i

\* The sequence s without its first m and its last n entries.
cropSeq(s, m, n) ==
    array([i \in 1..(IF Len(s) - m - n > 0 THEN Len(s) - m - n ELSE 0) |-> s[i + m]])

\* The tensor t without t rows at the top, b at the bottom, l columns at the
\* left and r at the right.
crop(x, t, b, l, r) ==
    array([n \in 1..Len(x) |->
        LET rows == cropSeq(x[n], t, b)
        IN  array([h \in 1..Len(rows) |-> cropSeq(rows[h], l, r)])])

\* C1: the tensor call() returns has the shape [B, H+top+bottom,
\* W+left+right, C] that computeOutputShape() reports for the input's shape
\* (stated here for valid padding amounts only).
C1_CallShapeIsComputedShape ==
    (rpCall = "ok" /\ ValidPadding) =>
        /\ shape(rpOut) = computeOutputShape(rpPadding, shape(rpX))
        /\ shape(rpOut) = <<shape(rpX)[1], shape(rpX)[2] + top + bottom,
                            shape(rpX)[3] + left + right, shape(rpX)[4]>>

\* C2: reflection does not repeat the edge: output row i, column j is source
\* row reflect(i - top, H), column reflect(j - left, W) (stated here for one
\* valid amount on all four sides, where the output has the claimed shape).
C2_ReflectWithoutEdge ==
    (rpCall = "ok" /\ ValidPadding /\ UniformPadding) =>
        \A n \in 1..Len(rpOut) : \A i \in 1..Len(rpOut[n]) :
            \A j \in 1..Len(rpOut[n][i]) :
                rpOut[n][i][j] =
                    rpX[n][reflect(i - 1 - top, shape(rpX)[2]) + 1]
                          [reflect(j - 1 - left, shape(rpX)[3]) + 1]

\* C3: mirror property: output column left-1-k equals output column left+k
\* for k in [0, left), and output row top-1-k equals output row top+k for k
\* in [0, top) (0-based; stated here for valid padding amounts).
C3_Mirror ==
    (rpCall = "ok" /\ ValidPadding) =>
        \A n \in 1..Len(rpOut) :
            /\ \A k \in 0..(top - 1) :
                  /\ top + k + 1 <= Len(rpOut[n])
                  /\ rpOut[n][top - k] = rpOut[n][top + k + 1]
            /\ \A i \in 1..Len(rpOut[n]) : \A k \in 0..(left - 1) :
                  /\ left + k + 1 <= Len(rpOut[n][i])
                  /\ rpOut[n][i][left - k] = rpOut[n][i][left + k + 1]

\* C4: round trip: for valid padding amounts, cropping the padded tensor by
\* the layer's top, bottom, left and right gives back the input.
C4_PadThenCrop ==
    (rpCall = "ok" /\ ValidPadding) =>
        crop(rpOut, top, bottom, left, right) = rpX

\* C5: invalid padding is rejected: call() returns a tensor only if every
\* amount is at least 0 and at most the extent it pads minus 1.
C5_InvalidPaddingRejected ==
    rpCall = "ok" => ValidPadding

----------------------------------------------------------------------------
(* Claims about the normalization layers, checked under SpecNorm.          *)

isIN == norm.className = "InstanceNormalization"
isCIN == norm.className = "ConditionalInstanceNormalization"
returned == normOp = "call" /\ normErr = ""

\* The channel axis of the layer on a 4-D input.
channelAxis == normalizedAxis(norm.axis, 4)

\* C6: InstanceNormalization.call takes the moments per sample and per
\* channel: axis 0 is no reduction axis, and on a batch of two or more the
\* output for a sample is the output of the layer on that sample alone
\* (stated for a layer whose channel axis is not axis 0).
C6_PerSampleStatistics ==
    (isIN /\ returned /\ channelAxis # 0 /\ Len(normX) >= 2) =>
        /\ \A n \in 1..3 : reductionAxes(4, channelAxis)[n] # 0
        /\ \A b \in 1..Len(normX) :
              normOut[b] = instanceNormalizationCall(norm, <<normX[b]>>).value[1]

\* C7: in InstanceNormalization scale and center are independent: build()
\* allocates gamma iff scale is set and beta iff center is set, and call()
\* returns standardized * (gamma if scale, else 1) + (beta if center, else
\* 0), element by element along the channel axis, the weights it applies
\* having one entry per channel.
C7_ScaleCenterIndependent ==
    isIN =>
        /\ norm.built =>
              /\ (norm.gamma # NoWeight) <=> truthy(norm.scale)
              /\ (norm.beta # NoWeight) <=> truthy(norm.center)
              /\ (\E n \in 1..Len(norm.weights) : norm.weights[n] = "gamma")
                    <=> truthy(norm.scale)
              /\ (\E n \in 1..Len(norm.weights) : norm.weights[n] = "beta")
                    <=> truthy(norm.center)
        /\ returned =>
              LET st == standardize(normX, norm.axis, norm.epsilon).value
                  s == shape(st)
                  g(k) == IF truthy(norm.scale) THEN norm.gamma.v[k] ELSE Num(1)
                  b(k) == IF truthy(norm.center) THEN norm.beta.v[k] ELSE Num(0)
              IN  /\ shape(normOut) = s
                  /\ truthy(norm.scale) => Len(norm.gamma.v) = s[channelAxis + 1]
                  /\ truthy(norm.center) => Len(norm.beta.v) = s[channelAxis + 1]
                  /\ \A i \in (1..s[1]) \X (1..s[2]) \X (1..s[3]) \X (1..s[4]) :
                        normOut[i[1]][i[2]][i[3]][i[4]] =
                            numAdd(numMul(st[i[1]][i[2]][i[3]][i[4]],
                                          g(i[channelAxis + 1])),
                                   b(i[channelAxis + 1]))

\* C7's case: a call that scaled by a trained gamma and added no beta.
C7_Witness ==
    /\ isIN /\ returned
    /\ truthy(norm.scale) /\ ~truthy(norm.center)
    /\ norm.gamma # ones(norm.inputSpec[3])

\* C8: build() of either layer throws the ValueError when the channel axis
\* of the input shape has no known size, and then leaves the layer as it
\* was: no weight added, inputSpec and sw not set, built still false on a
\* layer not built before (and every field as it was on one built before).
C8_BuildShapeError ==
    [][ (normOp' = "build"
         /\ dimAt(normInShape', normalizedAxis(norm.axis, Len(normInShape')))
               = NullDim)
        => (normErr' = "ValueError" /\ norm' = norm /\ norm'.built = norm.built) ]_vars

\* C8's case: a build() of a fresh ConditionalInstanceNormalization threw
\* the ValueError.
C8_Witness ==
    /\ isCIN /\ normOp = "build" /\ normErr = "ValueError"
    /\ dimAt(normInShape, normalizedAxis(norm.axis, Len(normInShape))) = NullDim
    /\ norm.weights = <<>> /\ norm.inputSpec = <<>> /\ norm.sw = <<>>
    /\ ~norm.built

\* Whether sw selects index i (1-based) alone.
OneHot(sw, i) == \A n \in 1..Len(sw) : sw[n] = (IF n = i THEN 1 ELSE 0)

\* The InstanceNormalization layer with scale and center set, the axis and
\* epsilon of l, and row i of l's tables as gamma and beta.
PlainOfRow(l, i) ==
    [NoLayer EXCEPT
        !.className = "InstanceNormalization",
        !.axis = l.axis, !.epsilon = l.epsilon,
        !.center = <<TRUE>>, !.scale = <<TRUE>>,
        !.built = TRUE, !.inputSpec = l.inputSpec,
        !.gamma = [shape |-> <<l.gamma.shape[2]>>, v |-> l.gamma.v[i]],
        !.beta = [shape |-> <<l.beta.shape[2]>>, v |-> l.beta.v[i]],
        !.weights = <<"gamma", "beta">>,
        !.addedWeightNames = <<"gamma", "beta">>]

\* C9: ConditionalInstanceNormalization with a one-hot selector at index i
\* returns what InstanceNormalization (scale and center set, same axis and
\* epsilon) returns with row i of the tables as gamma and beta.
C9_OneHotIsPlainInstanceNorm ==
    (isCIN /\ returned) =>
        \A i \in 1..Len(norm.sw) :
            OneHot(norm.sw, i) =>
                normOut = instanceNormalizationCall(PlainOfRow(norm, i), normX).value

\* C9's case: a call on a trained table of two or more rows, one selected.
C9_Witness ==
    /\ isCIN /\ returned
    /\ Len(norm.gamma.v) >= 2 /\ norm.gamma.v[1] # norm.gamma.v[2]
    /\ \E i \in 1..Len(norm.sw) : OneHot(norm.sw, i)
    /\ norm.gamma # onesTable(norm.gamma.shape[1], norm.gamma.shape[2])

\* C10: after build() of ConditionalInstanceNormalization the selector has
\* exactly style_num entries, as many as the gamma and beta tables have
\* rows, entry 0 being 1 and every other entry 0 (stated for a style_num
\* that is set).
C10_SelectorMatchesStyleNum ==
    (isCIN /\ norm.built /\ norm.style_num # <<>>) =>
        /\ Len(norm.sw) = norm.style_num[1]
        /\ Len(norm.sw) = norm.gamma.shape[1]
        /\ Len(norm.sw) = norm.beta.shape[1]
        /\ OneHot(norm.sw, 1)

\* C11: a call of ConditionalInstanceNormalization whose selector has not as
\* many entries as the gamma and beta tables have rows throws and returns
\* no tensor.
C11_SelectorLengthMismatchThrows ==
    (isCIN /\ normOp = "call"
        /\ (Len(norm.sw) # norm.gamma.shape[1] \/ Len(norm.sw) # norm.beta.shape[1]))
    => (normErr = "Error" /\ normOut = <<>>)

\* C11's case: a layer of style_num 0, built with the selector [1] and
\* tables of no rows, was called and threw.
C11_Witness ==
    /\ isCIN /\ normOp = "call" /\ normErr = "Error"
    /\ norm.style_num = <<0>> /\ Len(norm.sw) = 1 /\ norm.gamma.shape[1] = 0

\* C15: a call of ConditionalInstanceNormalization multiplies by the
\* effective gamma (sw . gamma table) only when scale is set and adds the
\* effective beta (sw . beta table) only when center is set.
C15_ConditionalHonoursScaleAndCenter ==
    (isCIN /\ returned) =>
        LET st == standardize(normX, norm.axis, norm.epsilon).value
            dim == norm.gamma.shape[2]
        IN  normOut = scaleAndShift(st, broadcastShape(shape(normX), channelAxis),
                                    truthy(norm.scale), dot(norm.sw, norm.gamma.v, dim),
                                    truthy(norm.center), dot(norm.sw, norm.beta.v, dim)).value

\* Whether every array of args.padding has length 2.
lengthsAreTwo(a) ==
    /\ a.kind = "numbers" => Len(a.nums) = 2
    /\ a.kind = "arrays" =>
          Len(a.arrs) = 2 /\ \A i \in 1..Len(a.arrs) : Len(a.arrs[i]) = 2

\* C16: the constructor of ReflectionPadding2D stores two pairs of two
\* entries: [[1,1],[1,1]] for no argument, [[p,p],[p,p]] for a scalar p,
\* [[h,h],[w,w]] for a pair [h,w], a nested [[t,b],[l,r]] as given; an
\* outer array or an inner pair whose length is not 2 makes it throw, and
\* no layer is produced.
C16_ConstructorPaddingSpec ==
    [][ \A args \in ReflectionPadding2DLayerArgs :
          NewReflectionPadding2D(args[1], args[2]) =>
            LET a == args[1] IN
            /\ a.kind = "null" =>
                  rpStatus' = "ok" /\ rpPadding' = <<<<1, 1>>, <<1, 1>>>>
            /\ a.kind = "number" =>
                  rpStatus' = "ok" /\ rpPadding' = <<<<a.n, a.n>>, <<a.n, a.n>>>>
            /\ (a.kind = "numbers" /\ lengthsAreTwo(a)) =>
                  /\ rpStatus' = "ok"
                  /\ rpPadding' = <<<<a.nums[1], a.nums[1]>>, <<a.nums[2], a.nums[2]>>>>
            /\ (a.kind = "arrays" /\ lengthsAreTwo(a)) =>
                  rpStatus' = "ok" /\ rpPadding' = a.arrs
            /\ ~lengthsAreTwo(a) =>
                  rpStatus' = "ValueError" /\ rpPadding' = <<>>
            /\ rpStatus' = "ok" =>
                  Len(rpPadding') = 2 /\ \A i \in 1..2 : Len(rpPadding'[i]) = 2
      ]_vars

\* C16's case: a layer constructed from the pair [0, 1] (or from the nested
\* pairs it stands for).
C16_Witness ==
    rpStatus = "ok" /\ rpPadding = <<<<0, 0>>, <<1, 1>>>>

\* C18: on an input of batch size 1 and a padding amount p with
\* 0 <= p <= min(H, W) the gather/concat reflection2dPadding and the
\* push/unshift reflection2dPadding return the same tensor.
C18_ImplementationsAgree ==
    (rpCall # "none" /\ Len(rpX) = 1
        /\ top >= 0 /\ top <= shape(rpX)[2] /\ top <= shape(rpX)[3])
    => /\ reflection2dPaddingArraySync(rpX, rpPadding)
            = reflection2dPadding(rpX, rpPadding, TRUE)
       /\ rpCall = "ok"
       /\ rpOut = reflection2dPaddingArraySync(rpX, rpPadding).value

\* C18's case: a call with the largest amount the height allows, on an
\* input wider than high.
C18_Witness ==
    /\ rpCall = "ok" /\ Len(rpX) = 1
    /\ top = shape(rpX)[2] /\ top >= 2 /\ top < shape(rpX)[3]

----------------------------------------------------------------------------
(* Claims about DeprocessStylizedImage, serialization, the forward pass    *)
(* and StyleTranfer.                                                       *)

\* C12: DeprocessStylizedImage.call returns x unchanged for the activation
\* "sigmoid" and (x + 1.0) * 127.5 for "tanh", in the shape of x.
C12_DeprocessCall ==
    dpOp = "call" =>
        /\ shape(dpOut) = shape(dpX)
        /\ dp.activation = <<"sigmoid">> => dpOut = dpX
        /\ dp.activation = <<"tanh">> =>
              \A w \in 1..Len(dpX[1][1]) :
                  dpOut[1][1][w][1] =
                      numMul(numAdd(dpX[1][1][w][1], Num(1)), frac(255, 2))

\* C13: a DeprocessStylizedImage given an activation other than "sigmoid"
\* and "tanh" fails at construction or at the call: no call of such a
\* layer returns a tensor.
C13_InvalidActivationRejected ==
    (dp.file # "none" /\ dp.activation # <<>>
        /\ dp.activation \notin {<<"sigmoid">>, <<"tanh">>})
    => ~(dpOp = "call" /\ dpOut # <<>>)

\* C14: the layer constructed from the record getConfig() returns has the
\* parameters of the original: padding and dim_ordering; axis, epsilon,
\* center, scale and the style count; the activation.
C14_ConfigRoundTrip ==
    [][ /\ normOp' = "fromConfig" =>
              /\ norm'.className = norm.className
              /\ norm'.axis = norm.axis /\ norm'.epsilon = norm.epsilon
              /\ norm'.center = norm.center /\ norm'.scale = norm.scale
              /\ norm'.style_num = norm.style_num
        /\ dpOp' = "fromConfig" => dp'.activation = dp.activation
        /\ RPFromConfig =>
              rpPadding' = rpPadding /\ rpDimOrdering' = rpDimOrdering
      ]_vars

\* C17: a call of a layer changes nothing but its result: the input tensor
\* is afterwards what was passed in, and the padding spec, the gamma and
\* beta weights and the selector are what they were.
C17_CallFrame ==
    [][ /\ \A x \in NormInputs :
              (INCall(x) \/ CINCall(x)) => (norm' = norm /\ normX' = x)
        /\ \A x \in PadInputs :
              (RPCallArraySync(x) \/ \E strict \in BOOLEAN : RPCall(x, strict))
              => /\ rpX' = x
                 /\ rpPadding' = rpPadding /\ rpDimOrdering' = rpDimOrdering
        /\ \A x \in DeprocessInputs :
              DPCall(x) => (dp' = dp /\ dpX' = x)
      ]_vars

\* C17's case: a conditional layer with trained tables was called and
\* returned.
C17_Witness ==
    /\ isCIN /\ returned
    /\ norm.gamma.shape[1] >= 1
    /\ norm.gamma # onesTable(norm.gamma.shape[1], norm.gamma.shape[2])
    /\ OneHot(norm.sw, 1)

\* C19: each of the two models of a StyleTranfer is fetched at most once,
\* whatever the interleaving of init(), loadStyleModel() and
\* loadTransformerModel().
C19_FetchedAtMostOnce ==
    fetches["style"] <= 1 /\ fetches["transformer"] <= 1

=============================================================================
